---- MODULE Spec2Model ----
(***************************************************************************)
(* A model of fluxy (src/fluxy/fluxy.py): the pipe(...) builder over       *)
(* From / PartialPipe / Pipe, the clause algebra with precedence-aware     *)
(* rendering, the range(...) constructor, and to_flux rendering.           *)
(*                                                                         *)
(* Every Python value is a record with a "type" field naming its class.    *)
(* Pipe and PartialPipe objects live on a heap and are passed by           *)
(* reference, so that identity (pipe(p) returning p itself) and mutation   *)
(* of an argument are observable.  Rendered text is a TLA+ string.         *)
(***************************************************************************)
EXTENDS Integers, Sequences, FiniteSets, TLC

VARIABLES heap, supplied, call, clause

vars == <<heap, supplied, call, clause>>

(***************************************************************************)
(* Bounds of the model.                                                    *)
(***************************************************************************)
\* number of Pipe / PartialPipe objects a client builds
MaxHeap == 2
\* number of BinaryClause nodes of a clause built with & and |
MaxClauseNodes == 3
\* number of key/value pairs of a mapping passed to conform
MaxPairs == 3
\* number of values passed to any
MaxValues == 2

(***************************************************************************)
(* Python values.                                                          *)
(***************************************************************************)
None == [type |-> "None"]

Str(s) == [type |-> "str", value |-> s]

Bool(b) == [type |-> "bool", value |-> b]

\* a member of an Enum class, carrying its .value
EnumMember(v) == [type |-> "Enum", value |-> v]

PyInt(n) == [type |-> "int", value |-> n]

List(items) == [type |-> "list", items |-> items]

\* a dict: its items in insertion order, each [key |-> ..., value |-> ...]
Dict(items) == [type |-> "dict", items |-> items]

\* datetime.timedelta(days, seconds, microseconds): the standard library
\* normalises to 0 <= microseconds < 10^6 and 0 <= seconds < 86400.
timedelta(days, seconds, microseconds) ==
    LET us == microseconds % 1000000
        s0 == seconds + (microseconds \div 1000000)
        s  == s0 % 86400
        d  == days + (s0 \div 86400)
    IN  [type |-> "timedelta", days |-> d, seconds |-> s, microseconds |-> us]

\* datetime.datetime(year, month, day, hour, minute, second, microsecond,
\* tzinfo); tz is "" for a naive datetime and "+00:00" for timezone.utc.
datetime(year, month, day, hour, minute, second, microsecond, tz) ==
    [type |-> "datetime", year |-> year, month |-> month, day |-> day,
     hour |-> hour, minute |-> minute, second |-> second,
     microsecond |-> microsecond, tz |-> tz]

From(bucket) == [type |-> "From", bucket |-> bucket]

from_bucket(bucket) == From(bucket)

Range(start, stop) == [type |-> "Range", start |-> start, stop |-> stop]

RangeOffset(start) == [type |-> "RangeOffset", start |-> start]

PartialPipe(initial) == [type |-> "PartialPipe", initial |-> initial]

Pipe(initial, range, operations) ==
    [type |-> "Pipe", initial |-> initial, range |-> range,
     operations |-> operations]

\* a reference to the heap object number id
Ref(id) == [type |-> "ref", id |-> id]

\* the class of a value; a reference has the class of the object it denotes
ClassOf(h, v) == IF v.type = "ref" THEN h[v.id].type ELSE v.type

\* the outcome of a call: the heap after it, the value returned, and the
\* message of the exception raised ("" when the call returned)
Return(h, v) == [heap |-> h, ret |-> v, raised |-> ""]

Raise(h, msg) == [heap |-> h, ret |-> None, raised |-> msg]

\* constructing a Pipe / PartialPipe allocates a new object
Alloc(h, obj) == Return(Append(h, obj), Ref(Len(h) + 1))

(***************************************************************************)
(* Text helpers: the str methods the source uses.                          *)
(***************************************************************************)
CharAt(s, i) == SubSeq(s, i, i)

LowerCase == "abcdefghijklmnopqrstuvwxyz"

UpperCase == "ABCDEFGHIJKLMNOPQRSTUVWXYZ"

\* str.upper() / str.lower() of one character, as tables
ToUpper ==
    [c \in {CharAt(LowerCase, i) : i \in 1..26} |->
        CharAt(UpperCase, CHOOSE i \in 1..26 : CharAt(LowerCase, i) = c)]

ToLower ==
    [c \in {CharAt(UpperCase, i) : i \in 1..26} |->
        CharAt(LowerCase, CHOOSE i \in 1..26 : CharAt(UpperCase, i) = c)]

upper_char(c) == IF c \in DOMAIN ToUpper THEN ToUpper[c] ELSE c

lower_char(c) == IF c \in DOMAIN ToLower THEN ToLower[c] ELSE c

RECURSIVE lower(_)
lower(s) == IF s = "" THEN "" ELSE lower_char(CharAt(s, 1)) \o lower(SubSeq(s, 2, Len(s)))

\* str.capitalize(): first character upper-cased, the rest lower-cased
capitalize(s) ==
    IF s = "" THEN "" ELSE upper_char(CharAt(s, 1)) \o lower(SubSeq(s, 2, Len(s)))

\* s[0:1].lower() + s[1:]
lower_first(s) ==
    IF s = "" THEN "" ELSE lower_char(CharAt(s, 1)) \o SubSeq(s, 2, Len(s))

\* sep.join(parts)
RECURSIVE join(_, _)
join(sep, parts) ==
    IF parts = <<>> THEN ""
    ELSE IF Len(parts) = 1 THEN parts[1]
    ELSE parts[1] \o sep \o join(sep, Tail(parts))

\* s.split(c) for a one-character separator c
RECURSIVE split(_, _)
split(s, c) ==
    IF \E i \in 1..Len(s) : CharAt(s, i) = c
    THEN LET i == CHOOSE k \in 1..Len(s) :
                    /\ CharAt(s, k) = c
                    /\ \A j \in 1..(k - 1) : CharAt(s, j) # c
         IN  <<SubSeq(s, 1, i - 1)>> \o split(SubSeq(s, i + 1, Len(s)), c)
    ELSE <<s>>

IsSpace(c) == c \in {" ", "\n", "\t", "\r", "\f"}

\* s.strip()
RECURSIVE strip(_)
strip(s) ==
    IF s = "" THEN ""
    ELSE IF IsSpace(CharAt(s, 1)) THEN strip(SubSeq(s, 2, Len(s)))
    ELSE IF IsSpace(CharAt(s, Len(s))) THEN strip(SubSeq(s, 1, Len(s) - 1))
    ELSE s

dedent(val) ==
    LET lines == split(val, "\n")
    IN  join("\n", [i \in 1..Len(lines) |-> strip(lines[i])])

\* "%0<width>d" of a non-negative integer
RECURSIVE zero_pad(_, _)
zero_pad(n, width) ==
    IF Len(ToString(n)) >= width THEN ToString(n)
    ELSE "0" \o zero_pad(n, width - 1) 

(***************************************************************************)
(* Clause algebra (Clause, LiteralClause, BinaryClause, ComparisonClause). *)
(***************************************************************************)
LiteralStringExpression(value) ==
    [type |-> "LiteralStringExpression", value |-> value]

LiteralClause(literal) == [type |-> "LiteralClause", literal |-> literal]

\* operation is the BinaryOperation member's value: "or" or "and"
BinaryClause(operation, left, right) ==
    [type |-> "BinaryClause", operation |-> operation, left |-> left,
     right |-> right]

\* operation is the ComparisonOperation member's value: "==" or "!="
ComparisonClause(operation, name, expression) ==
    [type |-> "ComparisonClause", operation |-> operation, name |-> name,
     expression |-> expression]

ClauseClasses == {"LiteralClause", "BinaryClause", "ComparisonClause"}

IsClause(v) == v.type \in ClauseClasses

\* parse_expression(value): only a str is an expression
parse_expression(value) ==
    IF value.type = "str"
    THEN [ret |-> LiteralStringExpression(value.value), raised |-> ""]
    ELSE [ret |-> None, raised |-> "didn't recognize expression"]

\* Clause.parse(val): a bool becomes a LiteralClause, anything else is
\* returned as it is
Clause_parse(val) ==
    IF val.type = "bool" THEN LiteralClause(val.value) ELSE val

\* Clause.__or__ / Clause.__and__
Clause_or(self, other) == BinaryClause("or", self, Clause_parse(other))

Clause_and(self, other) == BinaryClause("and", self, Clause_parse(other))

\* precedence with the numbers of AND and OR exchanged
precedence_AndOrExchanged(c) ==
    IF c.type = "LiteralClause" THEN 0
    ELSE IF c.type = "ComparisonClause" THEN 7
    ELSE IF c.operation = "and" THEN 10
    ELSE 9

\* the precedence property of the three Clause classes
precedence(c) ==
    IF c.type = "LiteralClause" THEN 0
    ELSE IF c.type = "ComparisonClause" THEN 7
    ELSE IF c.operation = "and" THEN 9
    ELSE 10

\* should_parenthesize with <= in place of <
should_parenthesize_OrEqual(self, other) ==
    precedence(self) <= precedence(other)

should_parenthesize(self, other) == precedence(self) < precedence(other)

bool_to_flux(val) == IF val THEN "true" ELSE "false"

LiteralStringExpression_to_flux(self) == "\"" \o self.value \o "\""

RECURSIVE Clause_to_flux(_)

ensure_precedence(self, other) ==
    IF should_parenthesize(self, other)
    THEN "(" \o Clause_to_flux(other) \o ")"
    ELSE Clause_to_flux(other)

\* to_flux of LiteralClause, ComparisonClause and BinaryClause
Clause_to_flux(self) ==
    IF self.type = "LiteralClause" THEN bool_to_flux(self.literal)
    ELSE IF self.type = "ComparisonClause"
    THEN "r[\"" \o self.name \o "\"] " \o self.operation \o " "
            \o LiteralStringExpression_to_flux(self.expression)
    ELSE ensure_precedence(self, self.left) \o " " \o self.operation \o " "
            \o ensure_precedence(self, self.right)

\* Field.__eq__ / Field.__ne__ on the Field that Row gives for name
Field_eq(name, other) ==
    LET e == parse_expression(other)
    IN  IF e.raised # "" THEN e
        ELSE [ret |-> ComparisonClause("==", name, e.ret), raised |-> ""]

Field_ne(name, other) ==
    LET e == parse_expression(other)
    IN  IF e.raised # "" THEN e
        ELSE [ret |-> ComparisonClause("!=", name, e.ret), raised |-> ""]

(***************************************************************************)
(* Pipeline stages.                                                        *)
(***************************************************************************)
Filter(c) == [type |-> "Filter", clause |-> c]

Pivot(row_key, column_key, value_column) ==
    [type |-> "Pivot", row_key |-> row_key, column_key |-> column_key,
     value_column |-> value_column]

AggregateWindow(every, fn, create_empty) ==
    [type |-> "AggregateWindow", every |-> every, fn |-> fn,
     create_empty |-> create_empty]

Drop(columns) == [type |-> "Drop", columns |-> columns]

Keep(columns) == [type |-> "Keep", columns |-> columns]

Map(fn) == [type |-> "Map", fn |-> fn]

Sum(column) == [type |-> "Sum", column |-> column]

Mean(column) == [type |-> "Mean", column |-> column]

Last == [type |-> "Last"]

Limit(n, offset) == [type |-> "Limit", n |-> n, offset |-> offset]

\* sort_order is the Order member's value: "desc" or "asc"
Sort(columns, sort_order) ==
    [type |-> "Sort", columns |-> columns, sort_order |-> sort_order]

Literal(expression) == [type |-> "Literal", expression |-> expression]

\* the classes derived from PipedFunction, with their dataclass fields in
\* declaration order
PipedFunctionClasses ==
    {"Range", "RangeOffset", "Pivot", "AggregateWindow", "Drop", "Keep"}

fields(cls) ==
    CASE cls = "Range" -> <<"start", "stop">>
      [] cls = "RangeOffset" -> <<"start">>
      [] cls = "Pivot" -> <<"row_key", "column_key", "value_column">>
      [] cls = "AggregateWindow" -> <<"every", "fn", "create_empty">>
      [] cls = "Drop" -> <<"columns">>
      [] cls = "Keep" -> <<"columns">>

\* str(v), as an f-string formats v
format(v) ==
    CASE v.type = "str" -> v.value
      [] v.type = "int" -> ToString(v.value)
      [] v.type = "bool" -> IF v.value THEN "True" ELSE "False"
      [] v.type = "None" -> "None"

\* PipedFunction.function; RangeOffset overrides it
function(self) ==
    IF self.type = "RangeOffset" THEN "range" ELSE lower_first(self.type)

_snakecase_to_camelcase(val) ==
    LET parts == split(val, "_")
        upper_camel_case ==
            join("", [i \in 1..Len(parts) |-> capitalize(parts[i])])
    IN  lower_first(upper_camel_case)

_list_to_flux(list) ==
    "[" \o join(", ", [i \in 1..Len(list.items) |->
                          "\"" \o format(list.items[i]) \o "\""]) \o "]"

_part(value, unit) == IF value # 0 THEN ToString(value) \o unit ELSE ""

_timedelta_to_flux(every) ==
    _part(every.days, "d") \o _part(every.seconds, "s")
        \o _part(every.microseconds, "us")

\* datetime.isoformat()
isoformat(d) ==
    zero_pad(d.year, 4) \o "-" \o zero_pad(d.month, 2) \o "-"
        \o zero_pad(d.day, 2) \o "T" \o zero_pad(d.hour, 2) \o ":"
        \o zero_pad(d.minute, 2) \o ":" \o zero_pad(d.second, 2)
        \o (IF d.microsecond # 0 THEN "." \o zero_pad(d.microsecond, 6)
            ELSE "")
        \o d.tz

\* PipedFunction._to_flux(value): a match with no default case, so a value
\* of any other type gives None
_to_flux(value) ==
    CASE value.type = "str" -> Str("\"" \o value.value \o "\"")
      [] value.type = "bool" -> Str(bool_to_flux(value.value))
      [] value.type = "list" -> Str(_list_to_flux(value))
      [] value.type = "timedelta" -> Str(_timedelta_to_flux(value))
      [] value.type = "datetime" -> Str(isoformat(value))
      [] value.type = "Enum" -> Str(value.value)
      [] OTHER -> None

PipedFunction_to_flux(self) ==
    LET names == fields(self.type)
        arguments == [i \in 1..Len(names) |->
            _snakecase_to_camelcase(names[i]) \o ": "
                \o format(_to_flux(self[names[i]]))]
    IN  dedent(function(self) \o "(" \o join(", ", arguments) \o ")")

From_to_flux(self) == "from(bucket: \"" \o self.bucket \o "\")"

Filter_to_flux(self) ==
    dedent("filter(fn: (r) => " \o Clause_to_flux(self.clause) \o ")")

Map_to_flux(self) == "map(fn: " \o self.fn \o ")"

Sum_to_flux(self) == "sum(column: \"" \o self.column \o "\")"

Mean_to_flux(self) == "mean(column: \"" \o self.column \o "\")"

Last_to_flux(self) == "last()"

Limit_to_flux(self) ==
    "limit(n: " \o ToString(self.n) \o ", offset: " \o ToString(self.offset)
        \o ")"

Sort_to_flux(self) ==
    "sort(columns: [\"" \o join("\", \"", self.columns) \o "\"], desc: "
        \o (IF self.sort_order = "desc" THEN "true" ELSE "false") \o ")"

Literal_to_flux(self) == self.expression

\* the classes that have a to_flux method
Renderable ==
    PipedFunctionClasses \cup
        {"From", "Filter", "Map", "Sum", "Mean", "Last", "Limit", "Sort",
         "Literal"}

\* op.to_flux(), dispatched on the class of op
to_flux(op) ==
    CASE op.type \in PipedFunctionClasses -> PipedFunction_to_flux(op)
      [] op.type = "From" -> From_to_flux(op)
      [] op.type = "Filter" -> Filter_to_flux(op)
      [] op.type = "Map" -> Map_to_flux(op)
      [] op.type = "Sum" -> Sum_to_flux(op)
      [] op.type = "Mean" -> Mean_to_flux(op)
      [] op.type = "Last" -> Last_to_flux(op)
      [] op.type = "Limit" -> Limit_to_flux(op)
      [] op.type = "Sort" -> Sort_to_flux(op)
      [] op.type = "Literal" -> Literal_to_flux(op)

\* Pipe.to_flux with the range placed after the operations
Pipe_to_flux_RangeLast(self) ==
    LET stages == <<self.initial>> \o self.operations \o <<self.range>>
        fluxes == [i \in 1..Len(stages) |-> to_flux(stages[i])]
    IN  join("\n|> ", fluxes)

\* Pipe.to_flux
Pipe_to_flux(self) ==
    LET stages == <<self.initial, self.range>> \o self.operations
        fluxes == [i \in 1..Len(stages) |-> to_flux(stages[i])]
    IN  join("\n|> ", fluxes)

(***************************************************************************)
(* The public constructors.                                                *)
(***************************************************************************)
\* range(start, stop=None)
range(start, stop) ==
    IF start.type = "timedelta"
    THEN [ret |-> RangeOffset(start), raised |-> ""]
    ELSE IF start.type = "datetime" /\ stop # None
    THEN [ret |-> Range(start, stop), raised |-> ""]
    ELSE [ret |-> None, raised |-> "invalid types"]

\* IsRange with the class patterns left out: any second argument passes
IsRangeAnyStage(second) == second # None

\* the class patterns Range(_) | RangeOffset(_) of pipe's match statement
IsRange(second) == second.type \in {"Range", "RangeOffset"}

\* PipeAppend with op placed after *ops: [*pipe.operations, *ops, op]
PipeAppendOpLast(h, first, second, ops) ==
    LET p == h[first.id]
    IN  Alloc(h, Pipe(p.initial, p.range, p.operations \o ops \o <<second>>))

\* PipeAppend extending pipe.operations in place and returning pipe
PipeAppendInPlace(h, first, second, ops) ==
    Return([h EXCEPT ![first.id].operations = @ \o <<second>> \o ops], first)

\* pipe's case (Pipe(_) as pipe, op): a new Pipe whose operations are a new
\* list [*pipe.operations, op, *ops]
PipeAppend(h, first, second, ops) ==
    LET p == h[first.id]
    IN  Alloc(h, Pipe(p.initial, p.range, p.operations \o <<second>> \o ops))

\* PipeSame with the two None cases missing: a Pipe falls through to the
\* append case with op = None, a PartialPipe to the default case
PipeSameFallThrough(h, first) ==
    IF h[first.id].type = "Pipe"
    THEN LET p == h[first.id]
         IN  Alloc(h, Pipe(p.initial, p.range, p.operations \o <<None>>))
    ELSE Raise(h, "invalid types")

\* pipe's cases (PartialPipe(_) as pipe, None) and (Pipe(_) as pipe, None)
PipeSame(h, first) == Return(h, first)

\* pipe(first, second=None, *ops)
pipe(h, first, second, ops) ==
    LET cls == ClassOf(h, first)
    IN  IF cls = "From" /\ second = None
        THEN Alloc(h, PartialPipe(first))
        ELSE IF cls = "From" /\ IsRange(second)
        THEN Alloc(h, Pipe(first, second, ops))
        ELSE IF cls = "PartialPipe" /\ second = None
        THEN PipeSame(h, first)
        ELSE IF cls = "PartialPipe" /\ IsRange(second)
        THEN Alloc(h, Pipe(h[first.id].initial, second, ops))
        ELSE IF cls = "Pipe" /\ second = None
        THEN PipeSame(h, first)
        ELSE IF cls = "Pipe"
        THEN PipeAppend(h, first, second, ops)
        ELSE Raise(h, "invalid types")

\* filter(callback), given the value callback(Row()) returns
filter(returned) == Filter(Clause_parse(returned))

pivot(row_key, column_key, value_column) ==
    Pivot(row_key, column_key, value_column)

aggregate_window(every, fn, create_empty) ==
    AggregateWindow(every, fn, create_empty)

drop(columns) == Drop(columns)

keep(columns) == Keep(columns)

\* reduce folding from the right: function(items[0], reduce(items[1:]))
RECURSIVE reduce_FromRight(_, _)
reduce_FromRight(fn, items) ==
    IF Len(items) = 1 THEN items[1]
    ELSE LET acc == items[1]
             cur == reduce_FromRight(fn, Tail(items))
         IN  IF fn = "and" THEN Clause_and(acc, cur)
             ELSE Clause_or(acc, cur)

\* functools.reduce(function, items) without an initial value, for the two
\* functions the source folds with: acc & cur ("and") and acc | cur ("or")
RECURSIVE reduce(_, _)
reduce(fn, items) ==
    IF Len(items) = 1 THEN items[1]
    ELSE LET acc == reduce(fn, SubSeq(items, 1, Len(items) - 1))
             cur == items[Len(items)]
         IN  IF fn = "and" THEN Clause_and(acc, cur)
             ELSE Clause_or(acc, cur)

\* conform(value)(row): row[key] == value for every item of the dict, folded
\* with &; an empty dict makes reduce raise TypeError
conform(value) ==
    LET compared == [i \in 1..Len(value.items) |->
                        Field_eq(value.items[i].key, value.items[i].value)]
    IN  IF \E i \in 1..Len(compared) : compared[i].raised # ""
        THEN [ret |-> None, raised |-> "didn't recognize expression"]
        ELSE IF compared = <<>>
        THEN [ret |-> None, raised |-> "TypeError"]
        ELSE [ret |-> reduce("and", [i \in 1..Len(compared) |-> compared[i].ret]),
              raised |-> ""]

\* any(test, values)(row), given the values test(value)(row) returns:
\* Clause.parse of each, folded with |
any(returned) ==
    IF returned = <<>>
    THEN [ret |-> None, raised |-> "TypeError"]
    ELSE [ret |-> reduce("or", [i \in 1..Len(returned) |->
                                    Clause_parse(returned[i])]),
          raised |-> ""]

(***************************************************************************)
(* The values a client passes to pipe(...).                                *)
(***************************************************************************)
Buckets == {"bucket", "other"}

Sources == {from_bucket(b) : b \in Buckets}

UtcStart == datetime(2020, 1, 1, 0, 0, 0, 0, "+00:00")

UtcStop == datetime(2022, 1, 1, 0, 0, 0, 0, "+00:00")

Ranges == {range(UtcStart, UtcStop).ret, range(timedelta(-7, 0, 0), None).ret}

TopicFilter == filter(Field_eq("topic", Str("test_topic")).ret)

StageOps == {TopicFilter, Sum("test")}

\* what is passed as *ops: nothing, or one stage operation
OpsArgs == {<<>>, <<Sum("test")>>}

\* what is passed as first: a source, a built Pipe or PartialPipe, or a
\* value that is none of these
Firsts(h) == Sources \cup {Ref(i) : i \in 1..Len(h)} \cup {Sum("test")}

\* what is passed as second: nothing, a range, or a stage operation
Seconds == {None, TopicFilter} \cup Ranges

NoCall ==
    [op |-> "", first |-> None, second |-> None, ops |-> <<>>,
     ret |-> None, raised |-> ""]

(***************************************************************************)
(* The builder as a state machine: a client calls pipe(...) on the values  *)
(* it holds and renders the Pipes it built.                                *)
(***************************************************************************)
Init ==
    /\ heap = <<>>
    /\ supplied = <<>>
    /\ call = NoCall
    /\ clause = None

\* what the calls that led to a new object supplied: the source, the range
\* and the stage operations in call order and argument order (a PartialPipe
\* holds a source only: the call that builds it supplies no operations)
Supplied(h, sup, first, second, ops) ==
    IF first.type # "ref"
    THEN [source |-> first, range |-> second,
          ops |-> IF second = None THEN <<>> ELSE ops]
    ELSE IF h[first.id].type = "PartialPipe"
    THEN [source |-> sup[first.id].source, range |-> second, ops |-> ops]
    ELSE [source |-> sup[first.id].source, range |-> sup[first.id].range,
          ops |-> sup[first.id].ops \o <<second>> \o ops]

PipeCall(first, second, ops) ==
    LET r == pipe(heap, first, second, ops)
    IN  /\ Len(r.heap) <= MaxHeap
        /\ heap' = r.heap
        /\ supplied' =
              IF Len(r.heap) > Len(heap)
              THEN Append(supplied, Supplied(heap, supplied, first, second, ops))
              ELSE supplied
        /\ call' = [op |-> "pipe", first |-> first, second |-> second,
                    ops |-> ops, ret |-> r.ret, raised |-> r.raised]
        /\ UNCHANGED clause

\* heap[i].to_flux(); a PartialPipe has no such method
ToFluxCall(i) ==
    /\ call' =
          [op |-> "to_flux", first |-> Ref(i), second |-> None, ops |-> <<>>,
           ret |-> IF heap[i].type = "Pipe"
                   THEN Str(Pipe_to_flux(heap[i])) ELSE None,
           raised |-> IF heap[i].type = "Pipe" THEN "" ELSE "AttributeError"]
    /\ UNCHANGED <<heap, supplied, clause>>

Next ==
    \/ \E first \in Firsts(heap), second \in Seconds, ops \in OpsArgs :
          PipeCall(first, second, ops)
    \/ \E i \in 1..Len(heap) : ToFluxCall(i)

Spec == Init /\ [][Next]_vars

(***************************************************************************)
(* Properties of the builder.                                              *)
(***************************************************************************)
IsPipeAt(h, v) == v.type = "ref" /\ h[v.id].type = "Pipe"

\* the Pipe that one call pipe(source, range, *ops) builds
BuiltAtOnce(source, rng, ops) ==
    LET second == IF ops = <<>> THEN None ELSE Head(ops)
        r1 == pipe(<<>>, source, rng, <<>>)
        r2 == pipe(r1.heap, r1.ret, second, IF ops = <<>> THEN <<>> ELSE Tail(ops))
    IN  r2.heap[r2.ret.id]

\* the Pipe that pipe(source, range, op1, ..., opN) builds in a single call
BuiltInOneCall(source, rng, ops) ==
    LET r == pipe(<<>>, source, rng, ops) IN r.heap[r.ret.id]

\* C1: every Pipe built has the source and the range that were supplied and,
\* as its operations, all supplied stage operations in call order and, within
\* a call, in argument order; it renders as the Pipe built from the same
\* source, range and operations in a single call, and
\* pipe(pipe(source, range), op1, ...) builds what pipe(source, range, op1,
\* ...) builds.
C1_OperationsKeptInOrder ==
    /\ \A i \in 1..Len(heap) :
          heap[i].type = "Pipe" =>
              /\ heap[i].initial = supplied[i].source
              /\ heap[i].range = supplied[i].range
              /\ heap[i].operations = supplied[i].ops
              /\ BuiltAtOnce(supplied[i].source, supplied[i].range,
                             supplied[i].ops)
                    = BuiltInOneCall(supplied[i].source, supplied[i].range,
                                     supplied[i].ops)
    /\ (call.op = "pipe" /\ call.raised = "" /\ IsPipeAt(heap, call.ret)) =>
          LET i == call.ret.id
          IN  Pipe_to_flux(heap[i]) =
                  Pipe_to_flux(BuiltInOneCall(supplied[i].source,
                                              supplied[i].range,
                                              supplied[i].ops))

\* a Pipe was extended by a call that passed two different stage operations
C1_Witness ==
    /\ call.op = "pipe"
    /\ call.raised = ""
    /\ IsPipeAt(heap, call.first)
    /\ call.ret # call.first
    /\ call.second \in StageOps
    /\ Len(call.ops) = 1
    /\ call.ops[1] # call.second
    /\ heap[call.ret.id].operations = <<call.second, call.ops[1]>>

\* C2: no step changes an object that exists: the Pipe or PartialPipe passed
\* to pipe(...) is afterwards what it was (source, range and operations, so
\* also its rendering), and extending it again gives its operations followed
\* only by the new ones.
C2_ArgumentNotMutated ==
    [][/\ Len(heap') >= Len(heap)
       /\ \A i \in 1..Len(heap) : heap'[i] = heap[i]
       /\ (call'.op = "pipe" /\ IsPipeAt(heap, call'.first)) =>
             \A second \in StageOps :
                 LET r == pipe(heap', call'.first, second, <<>>)
                 IN  r.heap[r.ret.id].operations
                        = heap[call'.first.id].operations \o <<second>>]_vars

\* a Pipe that has operations was extended into a new Pipe
C2_Witness ==
    /\ call.op = "pipe"
    /\ call.raised = ""
    /\ IsPipeAt(heap, call.first)
    /\ call.ret # call.first
    /\ heap[call.first.id].operations # <<>>
    /\ Len(heap[call.ret.id].operations)
          > Len(heap[call.first.id].operations)

\* C3: every Pipe has a Range or a RangeOffset as its range, and its text
\* starts with the source followed directly by that range; a source or a PartialPipe becomes a Pipe only in a call
\* whose second argument is a range.
C3_PipeHasRange ==
    /\ \A i \in 1..Len(heap) :
          heap[i].type = "Pipe" =>
              heap[i].range.type \in {"Range", "RangeOffset"}
    /\ (call.op = "to_flux" /\ call.raised = "") =>
          LET p == heap[call.first.id]
              prefix == From_to_flux(p.initial) \o "\n|> "
                            \o PipedFunction_to_flux(p.range)
          IN  SubSeq(call.ret.value, 1, Len(prefix)) = prefix
    /\ (/\ call.op = "pipe"
        /\ call.raised = ""
        /\ ClassOf(heap, call.first) \in {"From", "PartialPipe"}
        /\ ClassOf(heap, call.ret) = "Pipe")
          => call.second.type \in {"Range", "RangeOffset"}

\* a PartialPipe was piped with a range and stage operations into a Pipe
C3_Witness ==
    /\ call.op = "pipe"
    /\ call.raised = ""
    /\ ClassOf(heap, call.first) = "PartialPipe"
    /\ IsPipeAt(heap, call.ret)
    /\ heap[call.ret.id].operations # <<>>

IsStageOp(v) == v.type \in Renderable \ {"From"}

\* the four argument shapes of pipe(...) that the overloads declare
ListedShape(h, first, second, ops) ==
    LET cls == ClassOf(h, first)
        stages == \A k \in 1..Len(ops) : IsStageOp(ops[k])
    IN  \/ cls \in {"From", "PartialPipe", "Pipe"} /\ second = None /\ ops = <<>>
        \/ cls \in {"From", "PartialPipe"} /\ IsRange(second) /\ stages
        \/ cls = "Pipe" /\ IsStageOp(second) /\ stages

\* C4: a call of pipe(...) whose arguments have none of the four listed
\* shapes raises "invalid types" and returns nothing.
C4_OtherShapesRaise ==
    (call.op = "pipe" /\ ~ListedShape(heap, call.first, call.second, call.ops))
        => call.raised = "invalid types" /\ call.ret = None

\* the offset in the text at which the k-th of the renderings rs starts
RECURSIVE StageOffset(_, _)
StageOffset(rs, k) ==
    IF k = 1 THEN 0
    ELSE StageOffset(rs, k - 1) + Len(rs[k - 1]) + Len("\n|> ")

\* C5: the text of a Pipe with n operations consists of n + 2 renderings:
\* the source's, the range's and each operation's in order, with "\n|> "
\* between consecutive renderings and nothing before or after.
C5_RenderingIsJoinedStages ==
    (call.op = "to_flux" /\ call.raised = "") =>
        LET p == heap[call.first.id]
            n == Len(p.operations)
            text == call.ret.value
            rs == [k \in 1..(n + 2) |->
                      IF k = 1 THEN From_to_flux(p.initial)
                      ELSE IF k = 2 THEN PipedFunction_to_flux(p.range)
                      ELSE to_flux(p.operations[k - 2])]
        IN  /\ \A k \in 1..(n + 2) :
                  SubSeq(text, StageOffset(rs, k) + 1,
                         StageOffset(rs, k) + Len(rs[k])) = rs[k]
            /\ \A k \in 1..(n + 1) :
                  SubSeq(text, StageOffset(rs, k) + Len(rs[k]) + 1,
                         StageOffset(rs, k + 1)) = "\n|> "
            /\ Len(text) = StageOffset(rs, n + 2) + Len(rs[n + 2])

\* a Pipe with two different operations was rendered
C5_Witness ==
    /\ call.op = "to_flux"
    /\ call.raised = ""
    /\ Len(heap[call.first.id].operations) >= 2
    /\ heap[call.first.id].operations[1] # heap[call.first.id].operations[2]

\* C6: pipe(p) returns p: no exception, an object equal to p, and the heap as
\* it was; applied to its own result it gives that result again.
C6_PipeOfBuiltIsIdentity ==
    [][(/\ call'.op = "pipe"
        /\ call'.first.type = "ref"
        /\ call'.second = None
        /\ call'.ops = <<>>) =>
           /\ call'.raised = ""
           /\ call'.ret.type = "ref"
           /\ heap'[call'.ret.id] = heap[call'.first.id]
           /\ \A i \in 1..Len(heap) : heap'[i] = heap[i]
           /\ pipe(heap', call'.ret, None, <<>>).ret = call'.ret]_vars

\* pipe(p) was called on a Pipe that has operations / on a PartialPipe
C6_Witness ==
    /\ call.op = "pipe"
    /\ call.first.type = "ref"
    /\ call.second = None
    /\ call.ops = <<>>
    /\ call.ret = call.first
    /\ \/ ClassOf(heap, call.first) = "PartialPipe"
       \/ IsPipeAt(heap, call.first) /\ heap[call.first.id].operations # <<>>

(***************************************************************************)
(* The clause algebra as a state machine: a client compares row fields,    *)
(* combines clauses with & and |, calls conform and any, and renders the   *)
(* clause it holds inside a filter stage.                                  *)
(***************************************************************************)
FieldNames == {"topic", "field"}

ComparisonOperations == {"==", "!="}

\* the right-hand sides of a comparison: a string, and a value that is none
Comparands == {Str("test_topic"), PyInt(1)}

TopicIs == Field_eq("topic", Str("test_topic")).ret

FieldIsNot == Field_ne("field", Str("test")).ret

\* the right operands of & and |: booleans and clauses
Operands ==
    {Bool(TRUE), TopicIs, FieldIsNot, Clause_or(TopicIs, FieldIsNot),
     Clause_and(FieldIsNot, Bool(FALSE))}

\* the number of BinaryClause nodes of a clause
RECURSIVE ClauseNodes(_)
ClauseNodes(c) ==
    IF c.type = "BinaryClause"
    THEN 1 + ClauseNodes(c.left) + ClauseNodes(c.right)
    ELSE 0

Keys == {"topic", "field", "host", "unit"}

\* the value a mapping gives to a key
ValueOf(k) == Str("test_" \o k)

\* the dicts of n items, keys different
Mappings(n) ==
    {Dict([i \in 1..n |-> [key |-> ks[i], value |-> ValueOf(ks[i])]]) :
        ks \in {q \in [1..n -> Keys] : \A i, j \in 1..n : i # j => q[i] # q[j]}}

MappingsUpTo(n) == UNION {Mappings(k) : k \in 0..n}

\* the dicts passed in the values of any
AnyMappings ==
    {Dict(<<[key |-> "topic", value |-> Str("test_topic")],
            [key |-> "field", value |-> Str("test")]>>),
     Dict(<<[key |-> "topic", value |-> Str("other_test_topic")]>>),
     Dict(<<[key |-> "host", value |-> Str("a")],
            [key |-> "unit", value |-> Str("b")]>>)}

\* row[name] == other / row[name] != other
CompareCall(name, operation, other) ==
    LET r == IF operation = "==" THEN Field_eq(name, other)
             ELSE Field_ne(name, other)
    IN  /\ clause' = IF r.raised = "" THEN r.ret ELSE clause
        /\ call' = [op |-> operation, first |-> Str(name), second |-> other,
                    ops |-> <<>>, ret |-> r.ret, raised |-> r.raised]
        /\ UNCHANGED <<heap, supplied>>

\* clause & other
AndCall(other) ==
    /\ IsClause(clause)
    /\ ClauseNodes(Clause_and(clause, other)) <= MaxClauseNodes
    /\ clause' = Clause_and(clause, other)
    /\ call' = [op |-> "and", first |-> clause, second |-> other,
                ops |-> <<>>, ret |-> clause', raised |-> ""]
    /\ UNCHANGED <<heap, supplied>>

\* clause | other
OrCall(other) ==
    /\ IsClause(clause)
    /\ ClauseNodes(Clause_or(clause, other)) <= MaxClauseNodes
    /\ clause' = Clause_or(clause, other)
    /\ call' = [op |-> "or", first |-> clause, second |-> other,
                ops |-> <<>>, ret |-> clause', raised |-> ""]
    /\ UNCHANGED <<heap, supplied>>

\* conform(mapping)(Row())
ConformCall(mapping) ==
    LET r == conform(mapping)
    IN  /\ clause' = IF r.raised = "" THEN r.ret ELSE clause
        /\ call' = [op |-> "conform", first |-> mapping, second |-> None,
                    ops |-> <<>>, ret |-> r.ret, raised |-> r.raised]
        /\ UNCHANGED <<heap, supplied>>

\* any(conform, values)(Row()); a conform that raises ends the call
AnyCall(values) ==
    LET tested == [i \in 1..Len(values) |-> conform(values[i])]
        failed == \E i \in 1..Len(values) : tested[i].raised # ""
        r == IF failed
             THEN [ret |-> None, raised |-> "TypeError"]
             ELSE any([i \in 1..Len(values) |-> tested[i].ret])
    IN  /\ clause' = IF r.raised = "" THEN r.ret ELSE clause
        /\ call' = [op |-> "any", first |-> List(values), second |-> None,
                    ops |-> <<>>, ret |-> r.ret, raised |-> r.raised]
        /\ UNCHANGED <<heap, supplied>>

\* whether c and the operands below it are Clauses: rendering asks every
\* operand for its precedence and its to_flux, which only a Clause has
RECURSIVE IsClauseThroughout(_)
IsClauseThroughout(c) ==
    /\ IsClause(c)
    /\ c.type = "BinaryClause" =>
          IsClauseThroughout(c.left) /\ IsClauseThroughout(c.right)

\* filter(lambda r: clause).to_flux(); an operand that is no Clause has no
\* attribute precedence, and the lookup raises AttributeError
FilterToFluxCall ==
    /\ IsClause(clause)
    /\ call' = [op |-> "filter_to_flux", first |-> clause, second |-> None,
                ops |-> <<>>,
                ret |-> IF IsClauseThroughout(clause)
                        THEN Str(Filter_to_flux(filter(clause))) ELSE None,
                raised |-> IF IsClauseThroughout(clause) THEN ""
                           ELSE "AttributeError"]
    /\ UNCHANGED <<heap, supplied, clause>>

ClauseNext ==
    \/ \E name \in FieldNames, operation \in ComparisonOperations,
          other \in Comparands : CompareCall(name, operation, other)
    \/ \E other \in Operands : AndCall(other)
    \/ \E other \in Operands : OrCall(other)
    \/ FilterToFluxCall

ClauseSpec == Init /\ [][ClauseNext]_vars

\* the helper combinators conform and any, and the rendering of what they
\* return
ConformNext ==
    \/ \E mapping \in MappingsUpTo(MaxPairs) : ConformCall(mapping)
    \/ \E n \in 0..MaxValues :
          \E values \in [1..n -> AnyMappings] : AnyCall(values)
    \/ FilterToFluxCall

ConformSpec == Init /\ [][ConformNext]_vars

\* values that are neither a bool nor a Clause
NonClausables == {PyInt(3), Str("topic"), None}

\* what Clause.parse is given: a bool, a Clause, or neither
Parsed == Operands \cup {Bool(FALSE)} \cup NonClausables

\* the right operands of & and |: a bool, a Clause, or neither
Combined == {Bool(TRUE), TopicIs, PyInt(3), None}

\* Clause.parse(val)
ParseCall(val) ==
    /\ call' = [op |-> "parse", first |-> val, second |-> None, ops |-> <<>>,
                ret |-> Clause_parse(val), raised |-> ""]
    /\ UNCHANGED <<heap, supplied, clause>>

\* filter(lambda r: returned)
FilterCall(returned) ==
    /\ call' = [op |-> "filter", first |-> returned, second |-> None,
                ops |-> <<>>, ret |-> filter(returned), raised |-> ""]
    /\ UNCHANGED <<heap, supplied, clause>>

\* Clause.parse and its callers, given any value
ParseNext ==
    \/ \E other \in Comparands : CompareCall("field", "!=", other)
    \/ \E val \in Parsed : ParseCall(val)
    \/ \E returned \in Parsed : FilterCall(returned)
    \/ \E other \in Combined : AndCall(other)
    \/ \E other \in Combined : OrCall(other)
    \/ FilterToFluxCall

ParseSpec == Init /\ [][ParseNext]_vars

(***************************************************************************)
(* The range constructor as a state machine: a client calls range(...)     *)
(* and renders the stage it returned.                                      *)
(***************************************************************************)
Durations ==
    {timedelta(d, sec, us) : d \in {-7, 0, 1}, sec \in {-1, 0, 60},
                             us \in {0, 5}}

Timestamps ==
    {UtcStart, UtcStop, datetime(2021, 6, 15, 12, 30, 5, 250, "")}

\* what is passed as start: a duration, a timestamp, or neither
Starts == Durations \cup Timestamps \cup {Str("-7d"), None}

\* what is passed as stop: nothing, a timestamp, or something else
Stops == {None} \cup Timestamps \cup {timedelta(0, 60, 0), Str("now")}

RangeCall(start, stop) ==
    LET r == range(start, stop)
    IN  /\ call' = [op |-> "range", first |-> start, second |-> stop,
                    ops |-> <<>>, ret |-> r.ret, raised |-> r.raised]
        /\ UNCHANGED <<heap, supplied, clause>>

\* what is passed where a list of column names is expected: such a list,
\* or a value that is none
ColumnLists ==
    {List(<<Str("topic")>>), List(<<Str("_time"), Str("topic")>>), PyInt(3),
     None}

\* what is passed as value_column
ValueColumns == {Str("_value"), None}

\* what is passed as every: a duration, or a number of seconds
Everys == {timedelta(0, 60, 0), PyInt(60)}

\* the members of WindowOperation
WindowOperations == {EnumMember("mean"), EnumMember("last"), EnumMember("sum")}

\* what is passed as fn: a member, its name, or nothing
Fns == WindowOperations \cup {Str("mean"), None}

\* what is passed as create_empty
CreateEmpties == {Bool(FALSE), Bool(TRUE), None}

\* the calls that give a stage derived from PipedFunction
StageCalls == {"range", "pivot", "aggregate_window", "drop", "keep"}

PivotCall(row_key, column_key, value_column) ==
    /\ call' = [op |-> "pivot", first |-> row_key, second |-> column_key,
                ops |-> <<value_column>>,
                ret |-> pivot(row_key, column_key, value_column),
                raised |-> ""]
    /\ UNCHANGED <<heap, supplied, clause>>

AggregateWindowCall(every, fn, create_empty) ==
    /\ call' = [op |-> "aggregate_window", first |-> every, second |-> fn,
                ops |-> <<create_empty>>,
                ret |-> aggregate_window(every, fn, create_empty),
                raised |-> ""]
    /\ UNCHANGED <<heap, supplied, clause>>

DropCall(columns) ==
    /\ call' = [op |-> "drop", first |-> columns, second |-> None,
                ops |-> <<>>, ret |-> drop(columns), raised |-> ""]
    /\ UNCHANGED <<heap, supplied, clause>>

KeepCall(columns) ==
    /\ call' = [op |-> "keep", first |-> columns, second |-> None,
                ops |-> <<>>, ret |-> keep(columns), raised |-> ""]
    /\ UNCHANGED <<heap, supplied, clause>>

\* call.ret.to_flux() on the stage the last call returned; no statement of
\* PipedFunction.to_flux or of what it calls raises
StageToFluxCall ==
    /\ call.op \in StageCalls
    /\ call.raised = ""
    /\ call' = [op |-> "stage_to_flux", first |-> call.ret, second |-> None,
                ops |-> <<>>, ret |-> Str(PipedFunction_to_flux(call.ret)),
                raised |-> ""]
    /\ UNCHANGED <<heap, supplied, clause>>

\* pipe(range_query, call.ret).to_flux() on the stage the last call
\* returned, with range_query the Pipe the tests build; both Pipes are
\* temporaries of the expression, so no object is left on the heap
PipedStageToFluxCall ==
    /\ call.op \in StageCalls \ {"range"}
    /\ call.raised = ""
    /\ LET range_query ==
               pipe(<<>>, from_bucket("bucket"), range(UtcStart, UtcStop).ret,
                    <<>>)
           piped == pipe(range_query.heap, range_query.ret, call.ret, <<>>)
       IN  call' = [op |-> "piped_stage_to_flux", first |-> call.ret,
                    second |-> None, ops |-> <<>>,
                    ret |-> Str(Pipe_to_flux(piped.heap[piped.ret.id])),
                    raised |-> ""]
    /\ UNCHANGED <<heap, supplied, clause>>

RangeNext ==
    \/ \E start \in Starts, stop \in Stops : RangeCall(start, stop)
    \/ \E row_key \in ColumnLists, column_key \in ColumnLists,
          value_column \in ValueColumns :
          PivotCall(row_key, column_key, value_column)
    \/ \E every \in Everys, fn \in Fns, create_empty \in CreateEmpties :
          AggregateWindowCall(every, fn, create_empty)
    \/ \E columns \in ColumnLists : DropCall(columns)
    \/ \E columns \in ColumnLists : KeepCall(columns)
    \/ StageToFluxCall
    \/ PipedStageToFluxCall

RangeSpec == Init /\ [][RangeNext]_vars

(***************************************************************************)
(* Properties of the clause algebra.                                       *)
(***************************************************************************)
\* the precedence numbers as stated: literal 0, comparison 7, AND 9, OR 10
StatedPrecedence(c) ==
    CASE c.type = "LiteralClause" -> 0
      [] c.type = "ComparisonClause" -> 7
      [] c.type = "BinaryClause" /\ c.operation = "and" -> 9
      [] c.type = "BinaryClause" /\ c.operation = "or" -> 10

\* whether an operand is in parentheses, under three readings of the rule
Wrapped(rule, parent, side) ==
    CASE rule = "or under and" ->
            /\ side.type = "BinaryClause"
            /\ side.operation = "or"
            /\ parent.operation = "and"
      [] rule = "side lower" -> StatedPrecedence(side) < StatedPrecedence(parent)
      [] rule = "side higher" -> StatedPrecedence(side) > StatedPrecedence(parent)

\* the text of a clause whose operands are in parentheses as the rule says
RECURSIVE TextUnder(_, _)
TextUnder(rule, c) ==
    IF c.type = "LiteralClause" THEN IF c.literal THEN "true" ELSE "false"
    ELSE IF c.type = "ComparisonClause"
    THEN "r[\"" \o c.name \o "\"] " \o c.operation \o " \""
            \o c.expression.value \o "\""
    ELSE LET l == TextUnder(rule, c.left)
             r == TextUnder(rule, c.right)
         IN  (IF Wrapped(rule, c, c.left) THEN "(" \o l \o ")" ELSE l)
                \o " " \o c.operation \o " "
                \o (IF Wrapped(rule, c, c.right) THEN "(" \o r \o ")" ELSE r)

FilterText(rule, c) == "filter(fn: (r) => " \o TextUnder(rule, c) \o ")"

\* C7: in the text of a clause, an operand of a BinaryClause is in
\* parentheses exactly when it is an OR directly under an AND; chains of one
\* operator, an AND under an OR, literals and comparisons have none.
C7_ParenthesesOnlyForOrUnderAnd ==
    call.op = "filter_to_flux" =>
        call.ret.value = FilterText("or under and", call.first)

\* an AND was rendered whose left operand is an AND and whose right operand
\* is an OR
C7_Witness ==
    /\ call.op = "filter_to_flux"
    /\ call.first.type = "BinaryClause"
    /\ call.first.operation = "and"
    /\ call.first.left.type = "BinaryClause"
    /\ call.first.left.operation = "and"
    /\ call.first.right.type = "BinaryClause"
    /\ call.first.right.operation = "or"

\* the items that c folds from the left with the operator fn, if it folds n
\* items, and <<>> otherwise
RECURSIVE Unfold(_, _, _)
Unfold(c, fn, n) ==
    IF n = 1 THEN <<c>>
    ELSE IF c.type = "BinaryClause" /\ c.operation = fn
    THEN LET front == Unfold(c.left, fn, n - 1)
         IN  IF front = <<>> THEN <<>> ELSE Append(front, c.right)
    ELSE <<>>

\* the comparisons of a clause, from left to right
RECURSIVE Comparisons(_)
Comparisons(c) ==
    IF c.type = "BinaryClause"
    THEN Comparisons(c.left) \o Comparisons(c.right)
    ELSE <<c>>

\* the equality comparisons a mapping stands for, in its order
PairComparisons(mapping) ==
    [i \in 1..Len(mapping.items) |->
        ComparisonClause("==", mapping.items[i].key,
            LiteralStringExpression(mapping.items[i].value.value))]

RECURSIVE Concat(_)
Concat(seqs) == IF seqs = <<>> THEN <<>> ELSE Head(seqs) \o Concat(Tail(seqs))

\* C9: conform(mapping) gives the AND fold from the left of one equality
\* comparison per pair, in the mapping's order (one pair: the comparison
\* alone); any(test, values) gives the OR fold from the left of what test
\* gives for each value, in order; the comparisons are as many as the pairs
\* supplied and in their order.
C9_ConformAndAnyFoldLeft ==
    /\ (call.op = "conform" /\ call.raised = "") =>
          /\ Unfold(call.ret, "and", Len(call.first.items))
                = PairComparisons(call.first)
          /\ Comparisons(call.ret) = PairComparisons(call.first)
    /\ (call.op = "any" /\ call.raised = "") =>
          LET values == call.first.items
          IN  /\ Unfold(call.ret, "or", Len(values))
                    = [i \in 1..Len(values) |-> conform(values[i]).ret]
              /\ Comparisons(call.ret)
                    = Concat([i \in 1..Len(values) |->
                                 PairComparisons(values[i])])

\* any was called with two mappings, the first of two pairs
C9_Witness ==
    /\ call.op = "any"
    /\ call.raised = ""
    /\ Len(call.first.items) = 2
    /\ Len(call.first.items[1].items) = 2
    /\ call.ret.type = "BinaryClause"
    /\ call.ret.operation = "or"

\* C10 as stated: an operand is in parentheses if and only if its precedence
\* number is strictly less than that of the BinaryClause it is an operand of.
C10_WrappedIffSideLower ==
    call.op = "filter_to_flux" =>
        call.ret.value = FilterText("side lower", call.first)

\* C10: with literal 0, comparison 7, AND 9 and OR 10, an operand is in
\* parentheses if and only if its precedence number is strictly greater than
\* that of the BinaryClause it is an operand of.
C10_WrappedIffSideHigher ==
    call.op = "filter_to_flux" =>
        call.ret.value = FilterText("side higher", call.first)

\* an OR was rendered whose left operand is an AND and whose right operand
\* is an OR or a comparison
C10_Witness ==
    /\ call.op = "filter_to_flux"
    /\ call.first.type = "BinaryClause"
    /\ call.first.operation = "or"
    /\ call.first.left.type = "BinaryClause"
    /\ call.first.left.operation = "and"
    /\ call.first.right.type \in {"BinaryClause", "ComparisonClause"}

(***************************************************************************)
(* Properties of the range constructor.                                    *)
(***************************************************************************)
\* C8: range gives a RangeOffset only for a single duration and a Range only
\* for two timestamps; every other combination raises and gives no range.
C8_OtherCombinationsRaise ==
    call.op = "range" =>
        LET duration == call.first.type = "timedelta" /\ call.second = None
            timestamps == /\ call.first.type = "datetime"
                          /\ call.second.type = "datetime"
        IN  /\ call.ret.type = "RangeOffset" => duration
            /\ call.ret.type = "Range" => timestamps
            /\ ~(duration \/ timestamps) =>
                  call.raised = "invalid types" /\ call.ret = None

(***************************************************************************)
(* Properties of the rendering of a stage derived from PipedFunction.      *)
(***************************************************************************)
\* the types of field values stated as supported: string, boolean, list,
\* duration, timestamp, enum
SupportedTypes == {"str", "bool", "list", "timedelta", "datetime", "Enum"}

\* the fields of a stage whose value has none of these types
UnsupportedFields(stage) ==
    {i \in 1..Len(fields(stage.type)) :
        stage[fields(stage.type)[i]].type \notin SupportedTypes}

\* C11: rendering a Range, RangeOffset, Pivot, AggregateWindow, Drop or Keep
\* of which a field value has a type outside string, boolean, list, duration,
\* timestamp and enum raises, and gives no text for the stage nor for the
\* Pipe that contains it.
C11_UnsupportedValueRaises ==
    (/\ call.op \in {"stage_to_flux", "piped_stage_to_flux"}
     /\ UnsupportedFields(call.first) # {}) =>
        call.raised # "" /\ call.ret = None

(***************************************************************************)
(* Properties of Clause.parse and its callers.                             *)
(***************************************************************************)
\* C12: Clause.parse gives a LiteralClause holding the boolean for a
\* boolean and the same Clause for a Clause, and raises, returning no value,
\* for every other value; so no Filter that filter returns and no
\* BinaryClause that & or | returns contains an operand that is no Clause.
C12_ParseRejectsNonClause ==
    /\ call.op = "parse" =>
          IF call.first.type = "bool"
          THEN call.raised = "" /\ call.ret = LiteralClause(call.first.value)
          ELSE IF IsClause(call.first)
          THEN call.raised = "" /\ call.ret = call.first
          ELSE call.raised # "" /\ call.ret = None
    /\ (call.op = "filter" /\ call.raised = "") =>
          IsClauseThroughout(call.ret.clause)
    /\ (call.op \in {"and", "or"} /\ call.raised = "") =>
          IsClauseThroughout(call.ret)

====
